---- MODULE Spec2Model ----
(***************************************************************************)
(* docs/website_docs.h: three Doxygen group declarations                   *)
(* (frontend, components, utilities).  The header holds no code, only       *)
(* comment blocks; the model is the header's text, read line by line into   *)
(* comment blocks, and the blocks' commands, read word by word into the     *)
(* declared taxonomy (groups, titles, parent references, descriptions).     *)
(***************************************************************************)
EXTENDS Naturals, Sequences, FiniteSets

VARIABLES
    pc,         \* "scan": reading lines; "build": reading blocks; "done"
    line,       \* number of the next line of the header to read
    inComment,  \* a documentation block is open
    curBlock,   \* lines of the open block read so far
    blocks,     \* the closed blocks, in file order; each a sequence of lines
    blockDefs,  \* for each closed block, the number of @defgroup lines in it
    stray,      \* numbers of the non-blank lines read outside any block
    reopened,   \* numbers of the lines that open a block inside an open one
    order,      \* the blocks (indices into blocks) read so far, in reading order
    cur,        \* the block being read, 0 when none
    li,         \* line of the block being read
    ti,         \* word of that line to read next
    cmd,        \* the command whose arguments are being read, "" when none
    words,      \* the argument words of cmd read so far
    entry,      \* what the block being read has declared so far
    groups,     \* identifiers declared by @defgroup, one entry per declaration
    titles,     \* <<group, title>> per @defgroup
    edges,      \* <<group, parent>> per @ingroup
    briefs,     \* <<group, text>> per @brief
    details     \* <<group, text>> per @details

scanVars == <<line, inComment, curBlock, blocks, blockDefs, stray, reopened>>
readVars == <<order, cur, li, ti, cmd, words, entry>>
taxVars == <<groups, titles, edges, briefs, details>>
vars == <<pc, scanVars, readVars, taxVars>>

(***************************************************************************)
(* The header, line by line; a line is the sequence of its words.           *)
(***************************************************************************)
HeaderLines ==
    << <<"/**">>,
       <<"@defgroup", "frontend", "Frontend", "Application">>,
       <<"@brief", "React-based", "user", "interface", "components">>,
       <<"@details", "The", "frontend", "provides", "visualization", "and",
         "interaction", "with", "the", "analysis", "system.">>,
       <<"*/">>,
       <<>>,
       <<"/**">>,
       <<"@defgroup", "components", "UI", "Components">>,
       <<"@ingroup", "frontend">>,
       <<"@brief", "Reusable", "React", "components">>,
       <<"*/">>,
       <<>>,
       <<"/**">>,
       <<"@defgroup", "utilities", "Utilities">>,
       <<"@ingroup", "frontend">>,
       <<"@brief", "Shared", "utility", "functions", "and", "hooks">>,
       <<"*/">> >>

\* Slips of the header's text: a parent reference to a group nobody declares,
\* an identifier used twice, a group nested under a sibling, a parent
\* reference in the root's block that closes a cycle, a block left open.
FileDanglingParent == [HeaderLines EXCEPT ![15] = <<"@ingroup", "backend">>]
FileDuplicateId == [HeaderLines EXCEPT ![14] = <<"@defgroup", "components", "Utilities">>]
FileNested == [HeaderLines EXCEPT ![15] = <<"@ingroup", "components">>]
FileCycle == [HeaderLines EXCEPT ![4] = <<"@ingroup", "utilities">>]
FileUnclosed == [HeaderLines EXCEPT ![11] = <<>>]

\* The header as the scan reads it.
File == HeaderLines

\* The special commands the header uses.
Commands == {"@defgroup", "@ingroup", "@brief", "@details"}

IsOpen(l) == l = <<"/**">>
IsClose(l) == l = <<"*/">>
IsBlank(l) == l = <<>>

\* Number of lines of block b that start with @defgroup.
RECURSIVE DefgroupCount(_)
DefgroupCount(b) ==
    IF b = <<>> THEN 0
    ELSE (IF Head(b) # <<>> /\ Head(Head(b)) = "@defgroup" THEN 1 ELSE 0)
         + DefgroupCount(Tail(b))

\* A slip of Join: the words run together.
RECURSIVE JoinNoBlank(_)
JoinNoBlank(ws) ==
    IF ws = <<>> THEN "" ELSE ws[1] \o JoinNoBlank(Tail(ws))

\* The words of a description joined by single blanks, as the line spells them.
RECURSIVE Join(_)
Join(ws) ==
    IF ws = <<>> THEN ""
    ELSE IF Len(ws) = 1 THEN ws[1]
    ELSE ws[1] \o " " \o Join(Tail(ws))

\* A block that has declared nothing yet.
EmptyEntry ==
    [name |-> "", title |-> "", ingroup |-> <<>>, brief |-> <<>>, details |-> <<>>]

\* A slip of Apply: @details text lands in the short description too.
ApplyDetailsAsBrief(e, c, ws) ==
    IF c = "@defgroup" /\ ws # <<>>
    THEN [e EXCEPT !.name = ws[1], !.title = Join(Tail(ws))]
    ELSE IF c = "@ingroup" /\ ws # <<>>
    THEN [e EXCEPT !.ingroup = Append(@, ws[1])]
    ELSE IF c \in {"@brief", "@details"}
    THEN [e EXCEPT !.brief = Append(@, Join(ws))]
    ELSE e

\* The entry e after command c with argument words ws: @defgroup takes the
\* first word as the identifier and the rest as the title, @ingroup takes one
\* word, @brief and @details take the text up to the next command.
Apply(e, c, ws) ==
    IF c = "@defgroup" /\ ws # <<>>
    THEN [e EXCEPT !.name = ws[1], !.title = Join(Tail(ws))]
    ELSE IF c = "@ingroup" /\ ws # <<>>
    THEN [e EXCEPT !.ingroup = Append(@, ws[1])]
    ELSE IF c = "@brief"
    THEN [e EXCEPT !.brief = Append(@, Join(ws))]
    ELSE IF c = "@details"
    THEN [e EXCEPT !.details = Append(@, Join(ws))]
    ELSE e

\* <<name, x>> for each x of xs, in order.
Tagged(name, xs) == [i \in 1..Len(xs) |-> <<name, xs[i]>>]

\* The elements of a sequence.
Range(s) == {s[i] : i \in 1..Len(s)}

Init ==
    /\ pc = "scan"
    /\ line = 1
    /\ inComment = FALSE
    /\ curBlock = <<>>
    /\ blocks = <<>>
    /\ blockDefs = <<>>
    /\ stray = {}
    /\ reopened = {}
    /\ order = <<>>
    /\ cur = 0
    /\ li = 0
    /\ ti = 0
    /\ cmd = ""
    /\ words = <<>>
    /\ entry = EmptyEntry
    /\ groups = <<>>
    /\ titles = <<>>
    /\ edges = <<>>
    /\ briefs = <<>>
    /\ details = <<>>

(***************************************************************************)
(* Scan: the header's lines in file order, with a comment-open state.       *)
(***************************************************************************)

\* A line "/**": opens a block (inside an open block it is recorded).
ScanOpen ==
    /\ pc = "scan"
    /\ line <= Len(File)
    /\ IsOpen(File[line])
    /\ reopened' = IF inComment THEN reopened \cup {line} ELSE reopened
    /\ curBlock' = IF inComment THEN curBlock ELSE <<>>
    /\ inComment' = TRUE
    /\ line' = line + 1
    /\ UNCHANGED <<pc, blocks, blockDefs, stray, readVars, taxVars>>

\* A line "*/": closes the open block (outside a block it is a stray line).
ScanClose ==
    /\ pc = "scan"
    /\ line <= Len(File)
    /\ IsClose(File[line])
    /\ IF inComment
       THEN /\ blocks' = Append(blocks, curBlock)
            /\ blockDefs' = Append(blockDefs, DefgroupCount(curBlock))
            /\ stray' = stray
       ELSE /\ stray' = stray \cup {line}
            /\ UNCHANGED <<blocks, blockDefs>>
    /\ curBlock' = <<>>
    /\ inComment' = FALSE
    /\ line' = line + 1
    /\ UNCHANGED <<pc, reopened, readVars, taxVars>>

\* An empty line: skipped.
ScanBlank ==
    /\ pc = "scan"
    /\ line <= Len(File)
    /\ IsBlank(File[line])
    /\ line' = line + 1
    /\ UNCHANGED <<pc, inComment, curBlock, blocks, blockDefs, stray, reopened,
                   readVars, taxVars>>

\* Any other line: text of the open block, or a stray line outside one.
ScanText ==
    /\ pc = "scan"
    /\ line <= Len(File)
    /\ ~IsOpen(File[line]) /\ ~IsClose(File[line]) /\ ~IsBlank(File[line])
    /\ IF inComment
       THEN curBlock' = Append(curBlock, File[line]) /\ stray' = stray
       ELSE stray' = stray \cup {line} /\ curBlock' = curBlock
    /\ line' = line + 1
    /\ UNCHANGED <<pc, inComment, blocks, blockDefs, reopened, readVars, taxVars>>

\* End of file: the closed blocks go to the build.
ScanEnd ==
    /\ pc = "scan"
    /\ line = Len(File) + 1
    /\ pc' = "build"
    /\ UNCHANGED <<scanVars, readVars, taxVars>>

(***************************************************************************)
(* Build: the blocks in any order, each read word by word into an entry     *)
(* that joins the taxonomy when the block ends.                             *)
(***************************************************************************)

\* Start reading a block that has not been read.
BeginBlock(b) ==
    /\ pc = "build"
    /\ cur = 0
    /\ b \notin Range(order)
    /\ cur' = b
    /\ li' = 1
    /\ ti' = 1
    /\ cmd' = ""
    /\ words' = <<>>
    /\ entry' = EmptyEntry
    /\ UNCHANGED <<pc, scanVars, order, taxVars>>

\* The position after the word at (li, ti) of the block being read.
NextLi == IF ti < Len(blocks[cur][li]) THEN li ELSE li + 1
NextTi == IF ti < Len(blocks[cur][li]) THEN ti + 1 ELSE 1

\* A command word: the command before it is complete and applies.
ReadCommand ==
    /\ pc = "build"
    /\ cur # 0
    /\ li <= Len(blocks[cur])
    /\ blocks[cur][li][ti] \in Commands
    /\ entry' = Apply(entry, cmd, words)
    /\ cmd' = blocks[cur][li][ti]
    /\ words' = <<>>
    /\ li' = NextLi
    /\ ti' = NextTi
    /\ UNCHANGED <<pc, scanVars, order, cur, taxVars>>

\* Any other word: an argument of the command being read.
ReadWord ==
    /\ pc = "build"
    /\ cur # 0
    /\ li <= Len(blocks[cur])
    /\ blocks[cur][li][ti] \notin Commands
    /\ words' = Append(words, blocks[cur][li][ti])
    /\ li' = NextLi
    /\ ti' = NextTi
    /\ UNCHANGED <<pc, scanVars, order, cur, cmd, entry, taxVars>>

\* End of the block: the last command applies; a block that declared a group
\* adds it, its title, its parent references and its descriptions.
EndBlock ==
    /\ pc = "build"
    /\ cur # 0
    /\ li > Len(blocks[cur])
    /\ LET e == Apply(entry, cmd, words) IN
       IF e.name # ""
       THEN /\ groups' = Append(groups, e.name)
            /\ titles' = Append(titles, <<e.name, e.title>>)
            /\ edges' = edges \o Tagged(e.name, e.ingroup)
            /\ briefs' = briefs \o Tagged(e.name, e.brief)
            /\ details' = details \o Tagged(e.name, e.details)
       ELSE UNCHANGED taxVars
    /\ order' = Append(order, cur)
    /\ cur' = 0
    /\ li' = 0
    /\ ti' = 0
    /\ cmd' = ""
    /\ words' = <<>>
    /\ entry' = EmptyEntry
    /\ UNCHANGED <<pc, scanVars>>

\* Every block has been read: the build is complete.
Finish ==
    /\ pc = "build"
    /\ cur = 0
    /\ Len(order) = Len(blocks)
    /\ pc' = "done"
    /\ UNCHANGED <<scanVars, readVars, taxVars>>

Next ==
    \/ ScanOpen
    \/ ScanClose
    \/ ScanBlank
    \/ ScanText
    \/ ScanEnd
    \/ \E b \in 1..Len(blocks) : BeginBlock(b)
    \/ ReadCommand
    \/ ReadWord
    \/ EndBlock
    \/ Finish

Spec == Init /\ [][Next]_vars

(***************************************************************************)
(* The declared taxonomy.                                                   *)
(***************************************************************************)
Nodes == Range(groups)
ParentsOf(g) == {e[2] : e \in {x \in Range(edges) : x[1] = g}}
ChildrenOf(g) == {e[1] : e \in {x \in Range(edges) : x[2] = g}}
Roots == {g \in Nodes : ParentsOf(g) = {}}
Leaves == {g \in Nodes : ChildrenOf(g) = {}}

\* The groups reached from the groups of S in one to n parent steps.
RECURSIVE AncestorsWithin(_, _)
AncestorsWithin(S, n) ==
    IF n = 0 THEN {}
    ELSE LET P == UNION {ParentsOf(g) : g \in S}
         IN P \cup AncestorsWithin(P, n - 1)
Ancestors(g) == AncestorsWithin({g}, Len(edges))

\* Number of entries of the sequence of pairs s that belong to group g.
CountFor(s, g) == Cardinality({i \in 1..Len(s) : s[i][1] = g})

\* C1: once the build is complete, every parent a group references with
\* @ingroup is itself a declared group: no group has a dangling parent.
C1_ParentsDeclared ==
    pc = "done" => \A i \in 1..Len(edges) : edges[i][2] \in Nodes

\* Both children reference frontend, and were read before frontend's block.
C1_Witness ==
    /\ pc = "done"
    /\ order = <<3, 2, 1>>
    /\ ParentsOf("components") = {"frontend"}
    /\ ParentsOf("utilities") = {"frontend"}

\* C2: no two @defgroup declarations use the same identifier, at any point of
\* the build; the complete taxonomy has the three distinct nodes frontend,
\* components and utilities, as many nodes as declarations.
C2_UniqueIds ==
    /\ \A i, j \in 1..Len(groups) : groups[i] = groups[j] => i = j
    /\ pc = "done" =>
          /\ Len(groups) = 3
          /\ Nodes = {"frontend", "components", "utilities"}
          /\ Cardinality(Nodes) = Len(groups)

\* All three declarations have been read.
C2_Witness ==
    pc = "done" /\ Len(groups) = 3 /\ Len(blocks) = 3

\* C5: the complete build has exactly the root frontend and exactly the
\* leaves components and utilities, both direct children of frontend, and no
\* other node or edge.
C5_OneRootTwoLeaves ==
    pc = "done" =>
        /\ Nodes = {"frontend", "components", "utilities"}
        /\ Roots = {"frontend"}
        /\ Leaves = {"components", "utilities"}
        /\ Range(edges) = {<<"components", "frontend">>, <<"utilities", "frontend">>}
        /\ ChildrenOf("frontend") = {"components", "utilities"}

\* A complete build whose tree has a root with two children.
C5_Witness ==
    pc = "done" /\ Cardinality(ChildrenOf("frontend")) = 2 /\ Len(order) = 3

\* C6: a block never holds more than one @brief, and in the complete build
\* every declared group has exactly one short description.
C6_OneBrief ==
    /\ Len(entry.brief) <= 1
    /\ \A g \in Nodes : CountFor(briefs, g) = 1
    /\ pc = "done" => Len(briefs) = 3 /\ Nodes # {}

\* All three groups are declared, frontend's block with its @details last.
C6_Witness ==
    pc = "done" /\ order[3] = 1 /\ Len(briefs) = 3 /\ Len(details) = 1

\* The descriptions as the header states them.
DeclaredBriefs ==
    { <<"frontend", "React-based user interface components">>,
      <<"components", "Reusable React components">>,
      <<"utilities", "Shared utility functions and hooks">> }

\* C7: in whatever order the blocks are read, a description is only ever
\* attached to the group whose block states it, and in the complete build
\* components shows exactly "Reusable React components" and utilities exactly
\* "Shared utility functions and hooks".
C7_BriefsVerbatim ==
    /\ Range(briefs) \subseteq DeclaredBriefs
    /\ pc = "done" =>
          /\ {b[2] : b \in {x \in Range(briefs) : x[1] = "components"}}
                = {"Reusable React components"}
          /\ {b[2] : b \in {x \in Range(briefs) : x[1] = "utilities"}}
                = {"Shared utility functions and hooks"}

\* The leaves' descriptions are attached, utilities' block read first.
C7_Witness ==
    /\ pc = "done"
    /\ order[1] = 3
    /\ <<"utilities", "Shared utility functions and hooks">> \in Range(briefs)
    /\ <<"components", "Reusable React components">> \in Range(briefs)

\* C8: scanning the header line by line, no non-blank line lies outside a
\* documentation block, no block opens inside an open one, no block is open
\* at end of file, and every block holds exactly one @defgroup.
C8_OnlyDocBlocks ==
    /\ stray = {}
    /\ reopened = {}
    /\ pc # "scan" => ~inComment /\ Len(blocks) = 3
    /\ \A i \in 1..Len(blockDefs) : blockDefs[i] = 1

\* The whole header has been scanned: three blocks, opened and closed.
C8_Witness ==
    pc = "build" /\ line = Len(File) + 1 /\ Len(blockDefs) = 3 /\ cur = 0

\* C9: the parent relation is a forest of depth one: every group has at most
\* one @ingroup parent, no group is its own ancestor, frontend is the only
\* group without a parent, and every other group has frontend as its parent
\* and frontend's parent set is empty (one parent step).
C9_DepthOneForest ==
    /\ \A g \in Nodes : CountFor(edges, g) <= 1
    /\ pc = "done" =>
          /\ \A g \in Nodes : g \notin Ancestors(g)
          /\ Roots = {"frontend"}
          /\ \A g \in Nodes \ {"frontend"} :
                ParentsOf(g) = {"frontend"} /\ Ancestors(g) = {"frontend"}

\* Two groups each one parent step from the root.
C9_Witness ==
    /\ pc = "done"
    /\ Len(edges) = 2
    /\ Ancestors("components") = {"frontend"}
    /\ Ancestors("utilities") = {"frontend"}
====
